---- MODULE Spec2Model ----
(***************************************************************************)
(* Verification model of streamlit_app.py: the error log, safe_get, the    *)
(* two HTTP fetchers (api_get, http_get_raw), the list-mode walk            *)
(* (list_mode_iterate) and the fallback chain (find_upcoming_for_team,      *)
(* rankings_df_for_team).                                                   *)
(*                                                                         *)
(* Python values are represented as follows.                                *)
(*   - a mapping the code reads with .get is a TLA+ record; {} is <<>>;     *)
(*   - an Optional[int] (game id, round, league id) is an integer, with     *)
(*     NoInt standing for None;                                             *)
(*   - a JSON value walked by safe_get is tagged: Dict(f), Leaf(x), JNone;  *)
(*   - a text is a sequence of one-character strings, so that lower() and   *)
(*     the substring test "in" are computed, not assumed.                   *)
(* One step of a fetcher is one requests.get call together with all the    *)
(* code that runs until the next requests.get call or the return.           *)
(***************************************************************************)
EXTENDS Integers, Sequences, FiniteSets, TLC

VARIABLES
    error_log,      \* st.session_state["error_log"]
    appended,       \* history: every entry ever passed to log_error, in order
    json_error_is_request_exception,
                    \* the installed requests library: whether the error
                    \* r.json() raises on a non-JSON body is a RequestException
    calls,          \* number of top-level calls started in this session
    fetch,          \* frame of the api_get / http_get_raw call in progress
    obs,            \* history of the current top-level call: responses, requests
    walk,           \* frame of list_mode_iterate
    find,           \* frame of find_upcoming_for_team / rankings_df_for_team
    sg              \* arguments and result of safe_get

vars == <<error_log, appended, json_error_is_request_exception, calls, fetch,
          obs, walk, find, sg>>

----------------------------------------------------------------------------
(* Bounds of the model *)

MaxCalls == 2        \* top-level fetch calls per session (SpecFetch)
MaxAppends == 9      \* log_error calls per session (SpecLog)
MaxDepth == 2        \* nesting depth of the mappings given to safe_get
MaxPathLen == 3      \* length of the key paths given to safe_get
MaxRoundsArg == 2    \* largest max_rounds given to list_mode_iterate (SpecWalk)
MaxPageRows == 2     \* rows of one page of the listing (SpecWalk)
MaxListRounds == 2   \* rounds before the current one in the listing (SpecFind)

----------------------------------------------------------------------------
(* Program constants *)

ApiGetAttempts == 3          \* range(1, 4)
Variants == 5                \* len(variants) in get_games_team_mode
ResultCap == 8               \* out[:8]
FindMaxRounds == 60          \* max_rounds=60 in find_upcoming_for_team
HttpGetRawAttempts == 2      \* range(1, 3)
KeepLast == 8                \* error_log[-8:]
TRANSIENT == {408, 409, 429, 500, 502, 503, 504}

NoInt == -1                  \* None, where the code expects an int
None == "None"               \* None, where the code expects a text
EmptyMapping == <<>>         \* {}

----------------------------------------------------------------------------
(* Sequences *)

\* s[-n:]
LastN(s, n) == IF Len(s) <= n THEN s ELSE SubSeq(s, Len(s) - n + 1, Len(s))

\* s[:n]
FirstN(s, n) == IF Len(s) <= n THEN s ELSE SubSeq(s, 1, n)

\* s[:-1] and s[-1]
Front(s) == SubSeq(s, 1, Len(s) - 1)
Last(s) == s[Len(s)]

----------------------------------------------------------------------------
(* Error log *)

log_error_keeps_oldest(log, entry) == FirstN(Append(log, entry), KeepLast)

\* log_error: append, then keep the last KeepLast entries.
log_error(log, entry) == LastN(Append(log, entry), KeepLast)

RECURSIVE LogAll(_, _)
\* log_error applied to each entry of es in order
LogAll(log, es) ==
    IF es = <<>> THEN log ELSE LogAll(log_error(log, Head(es)), Tail(es))

Entry(m) == [msg |-> m]

----------------------------------------------------------------------------
(* safe_get *)

Keys == {"a", "b"}
JNone == [t |-> "none"]
Leaf(x) == [t |-> "leaf", v |-> x]          \* a number
TextLeaf(x) == [t |-> "text", v |-> x]      \* a string
Dict(f) == [t |-> "dict", m |-> f]

\* isinstance(cur, dict)
IsDict(v) == v.t = "dict"

RECURSIVE safe_get_loop(_, _, _, _)
\* the for loop of safe_get from position i of path, with cur as it stands
safe_get_loop(cur, path, i, default) ==
    IF i > Len(path) THEN cur
    ELSE IF IsDict(cur) /\ path[i] \in DOMAIN cur.m
         THEN safe_get_loop(cur.m[path[i]], path, i + 1, default)
         ELSE default

RECURSIVE safe_get_keeps_cur(_, _, _, _)
safe_get_keeps_cur(cur, path, i, default) ==
    IF i > Len(path) THEN cur
    ELSE IF IsDict(cur) /\ path[i] \in DOMAIN cur.m
         THEN safe_get_keeps_cur(cur.m[path[i]], path, i + 1, default)
         ELSE cur

safe_get_returns_cur(d, path, default) == safe_get_keeps_cur(d, path, 1, default)

safe_get(d, path, default) == safe_get_loop(d, path, 1, default)

----------------------------------------------------------------------------
(* HTTP responses *)

\* requests.get raised a RequestException (timeout, connection failure)
NetFail == [net |-> TRUE, status |-> 0, json |-> FALSE, data |-> EmptyMapping]

\* a response with status s whose body parses as JSON to d (json) or does not
Http(s, j, d) == [net |-> FALSE, status |-> s, json |-> j, data |-> d]

OkStatuses == {200}
ErrStatuses == {400, 403, 404, 501} \cup TRANSIENT

\* What the upstream may answer to a direct call of a fetcher.  The body of
\* an error response only ends up in the text of the diagnostic message.
FetchResponses ==
    {NetFail}
    \cup {Http(s, FALSE, EmptyMapping) : s \in ErrStatuses}
    \cup {Http(s, TRUE, d) : s \in OkStatuses,
                             d \in {EmptyMapping, [entries |-> <<1>>]}}
    \cup {Http(s, FALSE, EmptyMapping) : s \in OkStatuses}

----------------------------------------------------------------------------
(* api_get and http_get_raw, one requests.get per step *)

NewFrame(fn) ==
    [fn |-> fn, attempt |-> 1, last_err |-> None, state |-> "running",
     value |-> EmptyMapping, nreq |-> 0]

IdleFrame == [NewFrame("none") EXCEPT !.state = "idle"]

\* r.status_code in (408, 409, 429, 500, 502, 503, 504)
IsTransient(status) == status \in TRANSIENT

\* after the loop: if last_err: log_error(last_err); return {}
ApiGetFinish(g, err) ==
    [f |-> [g EXCEPT !.state = "returned", !.last_err = err,
                     !.value = EmptyMapping],
     log |-> IF err # None THEN <<Entry(err)>> ELSE <<>>]

ApiGetContinue_one_more(g, err) ==
    IF g.attempt <= ApiGetAttempts
    THEN [f |-> [g EXCEPT !.attempt = @ + 1, !.last_err = err], log |-> <<>>]
    ELSE ApiGetFinish(g, err)

\* next iteration of "for attempt in range(1, 4)", or the end of the loop
ApiGetContinue(g, err) ==
    IF g.attempt < ApiGetAttempts
    THEN [f |-> [g EXCEPT !.attempt = @ + 1, !.last_err = err], log |-> <<>>]
    ELSE ApiGetFinish(g, err)

\* One iteration of the loop of api_get on the response resp; jre says
\* whether the error of r.json() is a RequestException.
ApiGetStep(f, resp, jre) ==
    LET g == [f EXCEPT !.nreq = @ + 1] IN
    IF resp.net
    THEN ApiGetContinue(g, "Netzwerkfehler")
    ELSE IF resp.status >= 400
    THEN IF IsTransient(resp.status)
         THEN ApiGetContinue(g, "HTTP")
         ELSE ApiGetFinish(g, "HTTP")
    ELSE IF resp.json
    THEN [f |-> [g EXCEPT !.state = "returned", !.value = resp.data],
          log |-> <<>>]
    ELSE IF jre
    THEN ApiGetContinue(g, "Netzwerkfehler")
    ELSE [f |-> [g EXCEPT !.state = "raised"], log |-> <<>>]

\* r.raise_for_status(); return r.json()  succeed
HttpGetRawOk(resp) == ~resp.net /\ resp.status < 400 /\ resp.json

\* One iteration of the loop of http_get_raw on the response resp.
HttpGetRawStep(f, resp) ==
    LET g == [f EXCEPT !.nreq = @ + 1] IN
    IF HttpGetRawOk(resp)
    THEN [f |-> [g EXCEPT !.state = "returned", !.value = resp.data],
          log |-> <<>>]
    ELSE IF g.attempt < HttpGetRawAttempts
    THEN [f |-> [g EXCEPT !.attempt = @ + 1], log |-> <<Entry("GET fail")>>]
    ELSE [f |-> [g EXCEPT !.state = "returned", !.value = EmptyMapping],
          log |-> <<Entry("GET fail")>>]

FetchStep(f, resp, jre) ==
    IF f.fn = "api_get" THEN ApiGetStep(f, resp, jre) ELSE HttpGetRawStep(f, resp)

RECURSIVE FetchRun(_, _, _, _)
\* a whole call: the steps of the frame f on the responses resps, in order,
\* until it returns or raises; log collects the entries it passes to log_error
FetchRun(f, resps, jre, log) ==
    IF f.state # "running" THEN [f |-> f, log |-> log]
    ELSE LET r == FetchStep(f, Head(resps), jre)
         IN  FetchRun(r.f, Tail(resps), jre, log \o r.log)

----------------------------------------------------------------------------
(* Frames the specifications below leave alone *)

\* resps: the responses received; logged: the number of entries logged;
\* reqs: the requests of the callers of the fetchers, rets: what the finished
\* ones returned; listing: the rows the list-mode requests returned
ObsInit ==
    [resps |-> <<>>, logged |-> 0, reqs |-> <<>>, rets |-> <<>>,
     listing |-> <<>>]
WalkIdle == [pc |-> "idle"]
FindIdle == [pc |-> "idle"]
SgIdle == [d |-> JNone, path |-> <<>>, default |-> JNone, done |-> FALSE,
           result |-> JNone]

----------------------------------------------------------------------------
(* SpecSafeGet: safe_get on every nested mapping and key path within bounds *)

RECURSIVE Values(_)
\* the values nested at most n deep
Values(n) ==
    IF n = 0 THEN {Leaf(1)}
    ELSE {Leaf(1)} \cup
         {Dict(f) : f \in UNION {[S -> Values(n - 1)] : S \in SUBSET Keys}}

Paths == UNION {[1..n -> Keys] : n \in 0..MaxPathLen}

InitSafeGet ==
    /\ error_log = <<>> /\ appended = <<>>
    /\ json_error_is_request_exception = TRUE
    /\ calls = 0 /\ fetch = IdleFrame /\ obs = ObsInit
    /\ walk = WalkIdle /\ find = FindIdle
    /\ sg \in [d : Values(MaxDepth), path : Paths, default : {JNone, Leaf(0)},
               done : {FALSE}, result : {JNone}]

SafeGetCall ==
    /\ ~sg.done
    /\ sg' = [sg EXCEPT !.done = TRUE,
                        !.result = safe_get(sg.d, sg.path, sg.default)]
    /\ UNCHANGED <<error_log, appended, json_error_is_request_exception,
                   calls, fetch, obs, walk, find>>

NextSafeGet == SafeGetCall

SpecSafeGet == InitSafeGet /\ [][NextSafeGet]_vars

RECURSIVE ManualIndex(_, _)
\* d[p1][p2]...[pn], defined when PathExists(d, path)
ManualIndex(d, path) ==
    IF path = <<>> THEN d ELSE ManualIndex(d, Front(path)).m[Last(path)]

RECURSIVE PathExists(_, _)
\* every indexing of d[p1][p2]...[pn] is into a mapping that has the key
PathExists(d, path) ==
    \/ path = <<>>
    \/ /\ PathExists(d, Front(path))
       /\ IsDict(ManualIndex(d, Front(path)))
       /\ Last(path) \in DOMAIN ManualIndex(d, Front(path)).m

\* C9: safe_get returns what manual indexing returns when the full path
\* exists, and default when some prefix of the path is missing (a missing
\* key or a value that is not a mapping), at any depth.
C9_SafeGetMatchesIndexing ==
    sg.done =>
        IF PathExists(sg.d, sg.path)
        THEN sg.result = ManualIndex(sg.d, sg.path)
        ELSE sg.result = sg.default

\* a path of full length whose last key only is missing, two levels deep,
\* with a default that differs from every stored value
C9_Witness ==
    /\ sg.done
    /\ Len(sg.path) = MaxPathLen
    /\ PathExists(sg.d, Front(sg.path))
    /\ ~PathExists(sg.d, sg.path)
    /\ sg.default = Leaf(0)
    /\ sg.result = Leaf(0)

----------------------------------------------------------------------------
(* SpecFetch: direct calls of api_get and http_get_raw, request by request *)

InitFetch ==
    /\ error_log = <<>> /\ appended = <<>>
    /\ json_error_is_request_exception \in BOOLEAN
    /\ calls = 0 /\ fetch = IdleFrame /\ obs = ObsInit
    /\ walk = WalkIdle /\ find = FindIdle /\ sg = SgIdle

\* a caller calls api_get(path, params) and the cache holds no value for it
CallApiGet ==
    /\ fetch.state # "running" /\ calls < MaxCalls
    /\ fetch' = NewFrame("api_get") /\ obs' = ObsInit /\ calls' = calls + 1
    /\ UNCHANGED <<error_log, appended, json_error_is_request_exception,
                   walk, find, sg>>

\* a caller calls http_get_raw(url, params)
CallHttpGetRaw ==
    /\ fetch.state # "running" /\ calls < MaxCalls
    /\ fetch' = NewFrame("http_get_raw") /\ obs' = ObsInit
    /\ calls' = calls + 1
    /\ UNCHANGED <<error_log, appended, json_error_is_request_exception,
                   walk, find, sg>>

\* the effect on the frame, the log and the history of the fetcher's next
\* requests.get being answered by resp
Answered(resp) ==
    \E r \in {FetchStep(fetch, resp, json_error_is_request_exception)} :
    /\ fetch' = r.f
    /\ error_log' = LogAll(error_log, r.log)
    /\ appended' = appended \o r.log
    /\ obs' = [obs EXCEPT !.resps = Append(@, resp),
                          !.logged = @ + Len(r.log)]

ApiGetRequest ==
    /\ fetch.fn = "api_get" /\ fetch.state = "running"
    /\ \E resp \in FetchResponses : Answered(resp)
    /\ UNCHANGED <<json_error_is_request_exception, calls, walk, find, sg>>

HttpGetRawRequest ==
    /\ fetch.fn = "http_get_raw" /\ fetch.state = "running"
    /\ \E resp \in FetchResponses : Answered(resp)
    /\ UNCHANGED <<json_error_is_request_exception, calls, walk, find, sg>>

NextFetch ==
    \/ CallApiGet
    \/ CallHttpGetRaw
    \/ ApiGetRequest
    \/ HttpGetRawRequest

SpecFetch == InitFetch /\ [][NextFetch]_vars

\* the statuses the specification calls transient
SpecTransient == {408, 409, 429, 500, 502, 503, 504}

AllTransient(resps) ==
    \A i \in 1..Len(resps) : ~resps[i].net /\ resps[i].status \in SpecTransient

\* C1: an api_get call whose every attempt is answered by a transient status
\* issues exactly 3 requests, then returns {} without raising, and the error
\* log gains exactly 1 entry for the call.
C1_TransientExhaustsThreeAttempts ==
    (fetch.fn = "api_get" /\ AllTransient(obs.resps)) =>
        /\ fetch.nreq = Len(obs.resps)
        /\ \/ fetch.state = "running" /\ fetch.nreq < 3 /\ obs.logged = 0
           \/ /\ fetch.state = "returned" /\ fetch.nreq = 3
              /\ fetch.value = EmptyMapping
              /\ obs.logged = 1
              /\ Last(error_log) = Entry("HTTP")

C1_Witness ==
    /\ fetch.fn = "api_get" /\ fetch.state = "returned"
    /\ Len(obs.resps) = 3
    /\ obs.resps[1].status = 503 /\ obs.resps[2].status = 500
    /\ obs.resps[3].status = 429
    /\ fetch.value = EmptyMapping /\ obs.logged = 1

\* a 4xx status outside the transient set
NonTransient4xx(resp) ==
    ~resp.net /\ resp.status >= 400 /\ resp.status < 500
    /\ resp.status \notin SpecTransient

\* C2: neither api_get nor http_get_raw retries after a response whose status
\* is a 4xx outside the transient set: that response is the last of the call
\* (the only one when it answers the first request), and the call returns {}.
C2_NoRetryOnOther4xx ==
    \A i \in 1..Len(obs.resps) :
        NonTransient4xx(obs.resps[i]) =>
            /\ i = Len(obs.resps)
            /\ fetch.nreq = i
            /\ fetch.state = "returned"
            /\ fetch.value = EmptyMapping

\* a status below 400 whose body is not JSON
Malformed(resp) == ~resp.net /\ resp.status < 400 /\ ~resp.json

\* C3: api_get does not retry a malformed response: it issues exactly 1
\* request for it, records an entry in the error log and returns {} instead
\* of raising.
C3_MalformedNotRetried ==
    fetch.fn = "api_get" =>
        \A i \in 1..Len(obs.resps) :
            Malformed(obs.resps[i]) =>
                /\ i = Len(obs.resps)
                /\ fetch.state = "returned"
                /\ fetch.value = EmptyMapping
                /\ obs.logged = 1

----------------------------------------------------------------------------
(* SpecLog: whole calls of the fetchers, for the content of the error log *)

\* a network failure, an error status and a success
LogResponses ==
    {NetFail, Http(503, FALSE, EmptyMapping), Http(200, TRUE, EmptyMapping)}

\* No response of SpecLog is malformed, so the library plays no part.
InitLog ==
    /\ error_log = <<>> /\ appended = <<>>
    /\ json_error_is_request_exception = TRUE
    /\ calls = 0 /\ fetch = IdleFrame /\ obs = ObsInit
    /\ walk = WalkIdle /\ find = FindIdle /\ sg = SgIdle

WholeCall(fn, attempts) ==
    /\ Len(appended) < MaxAppends
    /\ \E resps \in [1..attempts -> LogResponses] :
       \E r \in {FetchRun(NewFrame(fn), resps,
                           json_error_is_request_exception, <<>>)} :
              /\ error_log' = LogAll(error_log, r.log)
              /\ appended' = appended \o r.log
    /\ UNCHANGED <<json_error_is_request_exception, calls, fetch, obs, walk,
                   find, sg>>

ApiGetCall == WholeCall("api_get", ApiGetAttempts)

HttpGetRawCall == WholeCall("http_get_raw", HttpGetRawAttempts)

NextLog == ApiGetCall \/ HttpGetRawCall

SpecLog == InitLog /\ [][NextLog]_vars

\* C7: the error log holds at most 8 entries, and they are the most recently
\* appended entries, in the order they were appended.
C7_LogIsLastEight ==
    /\ Len(error_log) <= 8
    /\ Len(error_log) = IF Len(appended) < 8 THEN Len(appended) ELSE 8
    /\ \A i \in 1..Len(error_log) :
          error_log[i] = appended[Len(appended) - Len(error_log) + i]

\* more than 8 entries were appended, by both fetchers, and the oldest
\* dropped entry differs from the oldest entry kept
C7_Witness ==
    /\ Len(appended) > 8
    /\ Len(error_log) = 8
    /\ appended[1] = Entry("GET fail")
    /\ error_log[1] = Entry("HTTP")
    /\ error_log[8] = Entry("Netzwerkfehler")

----------------------------------------------------------------------------
(* mode=list payloads: regions / rows / cells, and the slider *)

\* A cell is [text |-> <<texts>>] or [text |-> ..., link |-> [page, ids]].
\* isinstance(ln, dict) and ln.get("page") == "game_detail"
HasGameLink(c) == "link" \in DOMAIN c /\ c.link.page = "game_detail"

\* txt[0] if txt else ""
FirstText(cells, k) ==
    IF Len(cells) >= k /\ cells[k].text # <<>> THEN cells[k].text[1] ELSE <<>>

RECURSIVE Join(_)
\* " ".join(txt)
Join(txt) ==
    IF txt = <<>> THEN <<>>
    ELSE IF Len(txt) = 1 THEN txt[1]
    ELSE txt[1] \o <<" ">> \o Join(Tail(txt))

RECURSIVE FirstLinkedId(_)
\* the loop "for c in cells": ids[0] of the first cell that links to a game
\* with a non-empty ids, None when there is none
FirstLinkedId(cells) ==
    IF cells = <<>> THEN NoInt
    ELSE IF HasGameLink(Head(cells)) /\ Head(cells).link.ids # <<>>
    THEN Head(cells).link.ids[1]
    ELSE FirstLinkedId(Tail(cells))

parse_list_row_min(row) ==
    LET cells == row.cells
        gid0 == IF Len(cells) > 0 /\ HasGameLink(cells[1])
                   /\ cells[1].link.ids # <<>>
                THEN cells[1].link.ids[1] ELSE NoInt
    IN  [gid  |-> IF gid0 = NoInt THEN FirstLinkedId(cells) ELSE gid0,
         info |-> [date_time |-> FirstText(cells, 1),
                   hall      |-> FirstText(cells, 2),
                   home      |-> FirstText(cells, 3),
                   away      |-> FirstText(cells, 7),
                   result    |-> IF Len(cells) >= 8 THEN Join(cells[8].text)
                                 ELSE <<>>]]

\* "if gid:" for an Optional[int]
Truthy(n) == n # NoInt /\ n # 0

\* rows_info.setdefault(gid, info)
SetDefault(m, k, v) ==
    IF k \in DOMAIN m THEN m
    ELSE [x \in DOMAIN m \cup {k} |-> IF x = k THEN v ELSE m[x]]

\* m.update(n)
DictUpdate(m, n) ==
    [x \in DOMAIN m \cup DOMAIN n |-> IF x \in DOMAIN n THEN n[x] ELSE m[x]]

RECURSIVE Flatten(_)
\* the rows of the regions, in the order the nested loops visit them
Flatten(regions) ==
    IF regions = <<>> THEN <<>>
    ELSE Head(regions).rows \o Flatten(Tail(regions))

RECURSIVE ExtractLoop(_, _, _)
ExtractLoop(rows, ids, rows_info) ==
    IF rows = <<>> THEN [ids |-> ids, rows |-> rows_info]
    ELSE LET p == parse_list_row_min(Head(rows)) IN
         IF Truthy(p.gid)
         THEN ExtractLoop(Tail(rows), Append(ids, p.gid),
                          SetDefault(rows_info, p.gid, p.info))
         ELSE ExtractLoop(Tail(rows), ids, rows_info)

\* payload.get("data", {}).get("regions", [])
RegionsOf(payload) ==
    IF "data" \in DOMAIN payload THEN payload.data.regions ELSE <<>>

extract_ids_rows_from_list(payload) ==
    ExtractLoop(Flatten(RegionsOf(payload)), <<>>, <<>>)

\* The slider is kept as the round it leads to: prev is NoInt whenever
\* slider, prev, set_in_context or round is absent or round is not an int.
get_prev_round(payload) ==
    IF "data" \in DOMAIN payload THEN payload.data.prev ELSE NoInt

----------------------------------------------------------------------------
(* list_mode_iterate, one http_get_raw request per step *)

\* the state at "payload = http_get_raw(url, params=params)"
WalkStart(max_rounds) ==
    [pc |-> "initial", max_rounds |-> max_rounds, all_ids |-> <<>>,
     rows_map |-> <<>>, seen_rounds |-> {}, rounds_walked |-> 0,
     prev_round |-> NoInt]

RECURSIVE AppendNew(_, _)
\* for gid in ids: if gid not in all_ids: all_ids.append(gid)
AppendNew(all_ids, ids) ==
    IF ids = <<>> THEN all_ids
    ELSE AppendNew(IF \E i \in 1..Len(all_ids) : all_ids[i] = Head(ids)
                   THEN all_ids ELSE Append(all_ids, Head(ids)),
                   Tail(ids))

\* all_ids += ids
AllIdsAfterInitial(all_ids, ids) == all_ids \o ids

WalkGoesOn_no_cap(w) ==
    /\ Truthy(w.prev_round)
    /\ w.prev_round \notin w.seen_rounds

WalkGoesOn_no_guard(w) ==
    /\ Truthy(w.prev_round)
    /\ w.rounds_walked < w.max_rounds

\* the while condition
WalkGoesOn(w) ==
    /\ Truthy(w.prev_round)
    /\ w.rounds_walked < w.max_rounds
    /\ w.prev_round \notin w.seen_rounds

\* the while condition and, when it holds, the loop body up to the request
WalkLoop(w) ==
    IF WalkGoesOn(w)
    THEN [w EXCEPT !.pc = "round", !.seen_rounds = @ \cup {w.prev_round}]
    ELSE [w EXCEPT !.pc = "done"]

\* the code between the return of http_get_raw and the next request
WalkAfterPage(w, payload) ==
    LET e == extract_ids_rows_from_list(payload) IN
    IF w.pc = "initial"
    THEN WalkLoop([w EXCEPT !.all_ids = AllIdsAfterInitial(@, e.ids),
                            !.rows_map = DictUpdate(@, e.rows),
                            !.prev_round = get_prev_round(payload)])
    ELSE WalkLoop([w EXCEPT !.all_ids = AppendNew(@, e.ids),
                            !.rows_map = DictUpdate(e.rows, @),
                            !.prev_round = get_prev_round(payload),
                            !.rounds_walked = @ + 1])


\* a request as a caller of the fetchers sees it: the endpoint and what
\* tells the request apart (the variant of the parameters, the round)
Req(api, arg) == [api |-> api, arg |-> arg]

\* One step of the walk w, whose http_get_raw frame is f, on the response
\* resp: the frame, the walk, the entries logged and the page requests
\* issued by the step.  The frame of http_get_raw is gone once the walk has
\* taken its value.
WalkStep(w, f, resp) ==
    LET r == HttpGetRawStep(f, resp)
        w2 == IF r.f.state = "running" THEN w ELSE WalkAfterPage(w, r.f.value)
        next == r.f.state # "running" /\ w2.pc = "round"
    IN  [walk |-> w2,
         fetch |-> IF r.f.state = "running" THEN r.f
                   ELSE IF next THEN NewFrame("http_get_raw")
                   ELSE IdleFrame,
         log |-> r.log,
         reqs |-> IF next THEN <<Req("list", w2.prev_round)>> ELSE <<>>]

----------------------------------------------------------------------------
(* SpecWalk: list_mode_iterate against an upstream that answers each page
   request with any page and any previous-round pointer *)

Text(c) == <<c>>

\* a row as the upstream lays it out: date, hall, home, three cells the
\* code does not read, away, result; the game link sits in cell linkcell
\* (0: no link)
MkRow(gid, date, home, away, linkcell) ==
    LET Cell(k, text) ==
            IF k = linkcell
            THEN [text |-> text,
                  link |-> [page |-> "game_detail", ids |-> <<gid>>]]
            ELSE [text |-> text]
    IN  [cells |-> <<Cell(1, <<date>>), Cell(2, <<Text("h")>>),
                     Cell(3, <<home>>), Cell(4, <<>>), Cell(5, <<>>),
                     Cell(6, <<>>), Cell(7, <<away>>),
                     Cell(8, <<Text("2"), Text("1")>>)>>]

\* game 1 twice, with different texts and the link in different cells, and
\* a row whose game id is 0
WalkRows ==
    {MkRow(1, Text("a"), Text("x"), Text("y"), 1),
     MkRow(1, Text("b"), Text("y"), Text("x"), 4),
     MkRow(0, Text("d"), Text("x"), Text("y"), 1)}

\* the rows of a page in two regions
Regions(rows) == <<[rows |-> FirstN(rows, 1)], [rows |-> Tail(rows)]>>

Page(rows, prev) ==
    [data |-> [regions |-> IF rows = <<>> THEN <<>> ELSE Regions(rows),
               prev |-> prev]]

Pointers == {NoInt} \cup 0..(MaxRoundsArg + 1)

WalkResponses ==
    {NetFail, Http(404, FALSE, EmptyMapping)}
    \cup {Http(200, TRUE, Page(rows, prev)) :
            rows \in UNION {[1..n -> WalkRows] : n \in 0..MaxPageRows},
            prev \in Pointers}

InitWalk ==
    /\ error_log = <<>> /\ appended = <<>>
    /\ json_error_is_request_exception = TRUE
    /\ calls = 0 /\ fetch = IdleFrame /\ obs = ObsInit
    /\ walk = WalkIdle /\ find = FindIdle /\ sg = SgIdle

CallListModeIterate ==
    /\ walk.pc = "idle"
    /\ \E m \in 0..MaxRoundsArg : walk' = WalkStart(m)
    /\ fetch' = NewFrame("http_get_raw")
    /\ obs' = [ObsInit EXCEPT !.reqs = <<Req("list", NoInt)>>]
    /\ calls' = calls + 1
    /\ UNCHANGED <<error_log, appended, json_error_is_request_exception,
                   find, sg>>

ListPageRequest ==
    /\ walk.pc \in {"initial", "round"}
    /\ \E resp \in WalkResponses :
       \E s \in {WalkStep(walk, fetch, resp)} :
          /\ walk' = s.walk
          /\ fetch' = s.fetch
          /\ error_log' = LogAll(error_log, s.log)
          /\ appended' = appended \o s.log
          /\ obs' = [obs EXCEPT !.logged = @ + Len(s.log),
                                !.reqs = @ \o s.reqs]
    /\ UNCHANGED <<json_error_is_request_exception, calls, find, sg>>

NextWalk == CallListModeIterate \/ ListPageRequest

SpecWalk == InitWalk /\ [][NextWalk]_vars

\* C5: the walk fetches at most max_rounds pages after the initial page,
\* whatever the upstream answers: it asks for a further page only while
\* fewer than max_rounds of them were fetched.
C5_WalkWithinRoundCap ==
    walk.pc # "idle" =>
        /\ Len(obs.reqs) <= 1 + walk.max_rounds
        /\ walk.rounds_walked <= walk.max_rounds
        /\ (walk.pc = "round" => walk.rounds_walked < walk.max_rounds)

\* the cap stopped the walk: the last page points to a round not yet asked for
C5_Witness ==
    /\ walk.pc = "done"
    /\ walk.max_rounds = MaxRoundsArg
    /\ walk.rounds_walked = walk.max_rounds
    /\ Len(obs.reqs) = 1 + walk.max_rounds
    /\ Truthy(walk.prev_round)
    /\ \A i \in 1..Len(obs.reqs) : obs.reqs[i].arg # walk.prev_round

\* the walk was stopped by a pointer to a round it had asked for
StoppedByCycleGuard ==
    /\ walk.pc = "done"
    /\ \E i \in 2..Len(obs.reqs) : obs.reqs[i].arg = walk.prev_round

\* C6: within one walk no round is asked for twice; a page is asked for only
\* when the page before it points to a round not asked for before, so the
\* walk stops as soon as a page points to a round already asked for.
C6_NoRoundTwice ==
    walk.pc # "idle" =>
        /\ \A i, j \in 2..Len(obs.reqs) :
              obs.reqs[i].arg = obs.reqs[j].arg => i = j
        /\ walk.pc = "round" =>
              /\ obs.reqs[Len(obs.reqs)].arg = walk.prev_round
              /\ \A i \in 1..(Len(obs.reqs) - 1) :
                    obs.reqs[i].arg # walk.prev_round

\* a page pointed back to a round asked for earlier, below the cap, and the
\* walk ended there
C6_Witness ==
    /\ StoppedByCycleGuard
    /\ walk.rounds_walked < walk.max_rounds
    /\ Len(obs.reqs) = 1 + walk.rounds_walked
    /\ walk.rounds_walked >= 1

\* C10: the list of game ids the walk returns holds each id at most once.
C10_IdsUnique ==
    walk.pc = "done" =>
        \A i, j \in 1..Len(walk.all_ids) :
            walk.all_ids[i] = walk.all_ids[j] => i = j

----------------------------------------------------------------------------
(* Texts *)

\* c.lower() for the letters that occur
LowerChar(c) ==
    CASE c = "U" -> "u" [] c = "R" -> "r" [] c = "E" -> "e"
      [] c = "F" -> "f" [] c = "G" -> "g" [] OTHER -> c

\* t.lower()
LowerText(t) == [i \in 1..Len(t) |-> LowerChar(t[i])]

\* sub in s
Contains(sub, s) ==
    \E i \in 0..(Len(s) - Len(sub)) : SubSeq(s, i + 1, i + Len(sub)) = sub

\* name.lower() in h or name.lower() in a, with h and a lowered
NameMatches(name, home, away) ==
    \/ Contains(LowerText(name), LowerText(home))
    \/ Contains(LowerText(name), LowerText(away))

----------------------------------------------------------------------------
(* JSON values read with .get and "or" *)

\* bool(v)
JTruthy(v) ==
    \/ v.t = "leaf" /\ v.v # 0
    \/ v.t = "text" /\ v.v # <<>>
    \/ v.t = "dict" /\ DOMAIN v.m # {}

\* d.get(k)
JGet(d, k) == IF IsDict(d) /\ k \in DOMAIN d.m THEN d.m[k] ELSE JNone

\* d.get(k, default)
JGetD(d, k, default) ==
    IF IsDict(d) /\ k \in DOMAIN d.m THEN d.m[k] ELSE default

\* a or b
JOr(a, b) == IF JTruthy(a) THEN a ELSE b

\* the text of v inside an f-string, for a string v
JText(v) == IF v.t = "text" THEN v.v ELSE <<>>

\* what api_get returned, as a JSON value
AsJson(value) == IF value = EmptyMapping THEN Dict(<<>>) ELSE value

----------------------------------------------------------------------------
(* find_upcoming_for_team and rankings_df_for_team *)

\* data.get("entries"), [] when absent
Entries(data) == IF "entries" \in DOMAIN data THEN data.entries ELSE <<>>

\* the row made of one entry of the team-mode answer
EntryRow(ent) ==
    LET g == JGetD(ent, "game", Dict(<<>>)) IN
    [game_id   |-> JOr(JOr(JGet(g, "id"), JGet(g, "game_id")), JGet(ent, "id")),
     date_time |-> JText(JGetD(g, "date", TextLeaf(<<>>))) \o <<" ">>
                   \o JText(JGetD(g, "time", TextLeaf(<<>>))),
     home      |-> safe_get(g, <<"home_team", "name">>, TextLeaf(<<>>)),
     away      |-> safe_get(g, <<"away_team", "name">>, TextLeaf(<<>>)),
     result    |-> JGetD(g, "result", TextLeaf(<<"-">>)),
     status    |-> safe_get(g, <<"status", "text">>, TextLeaf(<<>>))]

\* info.get(k, ""), for the mapping of a list-mode row
InfoGet(info, k) == IF k \in DOMAIN info THEN info[k] ELSE <<>>

\* the row made of a list-mode game
ListRow(gid, info) ==
    [game_id   |-> gid,
     date_time |-> InfoGet(info, "date_time"),
     home      |-> InfoGet(info, "home"),
     away      |-> InfoGet(info, "away"),
     result    |-> InfoGet(info, "result"),
     status    |-> <<>>]

\* if name and (name.lower() in h or name.lower() in a)
RowSelected(name, info) ==
    name # <<>> /\ NameMatches(name, InfoGet(info, "home"), InfoGet(info, "away"))

RECURSIVE FilterLoop(_, _, _, _)
\* for gid in ids: ... out.append(...)
FilterLoop(ids, rows_map, name, out) ==
    IF ids = <<>> THEN out
    ELSE LET gid == Head(ids)
             info == IF gid \in DOMAIN rows_map THEN rows_map[gid]
                     ELSE EmptyMapping
         IN  FilterLoop(Tail(ids), rows_map, name,
                        IF RowSelected(name, info)
                        THEN Append(out, ListRow(gid, info)) ELSE out)

Truncate_none(out) == out

\* out[:8]
Truncate(out) == FirstN(out, ResultCap)

\* the state at the first api_get of get_games_team_mode (find_upcoming) or
\* of derive_context_from_team (rankings_df_for_team)
FindStart(fn, upstream, team_name) ==
    [fn |-> fn, upstream |-> upstream, team_name |-> team_name,
     pc |-> IF fn = "rankings_df_for_team" THEN "get_team" ELSE "team_mode",
     variant |-> 1, league |-> JNone, gclass |-> JNone, group |-> JNone,
     name |-> <<>>, result |-> <<>>]

\* if data.get("entries"): return data
TeamModeStops(data) == Entries(data) # <<>>

\* get_games_team_mode after api_get returned data for the variant in turn,
\* and the code of find_upcoming_for_team that follows its return
AfterTeamMode(fd, data) ==
    IF TeamModeStops(data)
    THEN \* prim["entries"] is data["entries"]
         [fd EXCEPT !.pc = "done",
                    !.result = Truncate([i \in 1..Len(data.entries) |->
                                            EntryRow(data.entries[i])])]
    ELSE IF fd.variant < Variants
    THEN [fd EXCEPT !.variant = @ + 1]
    ELSE \* prim = {"entries": []}: the fallback starts with get_team
         [fd EXCEPT !.pc = "get_team"]

ContextResolved_league_only(league, gclass) == JTruthy(league)

\* league and gclass
ContextResolved(league, gclass) == JTruthy(league) /\ JTruthy(gclass)

\* derive_context_from_team after get_team returned value, and the code of
\* its caller up to the next request or the return
AfterGetTeam(fd, value) ==
    LET info == AsJson(value)
        league == safe_get(info, <<"league", "id">>, JNone)
        gclass == safe_get(info, <<"game_class", "id">>, JNone)
        group  == safe_get(info, <<"group", "name">>, JNone)
        tname  == safe_get(info, <<"name">>, JNone)
        g == [fd EXCEPT !.league = league, !.gclass = gclass,
                        !.group = group,
                        !.name = IF fd.team_name # <<>> THEN fd.team_name
                                 ELSE IF JTruthy(tname) THEN JText(tname)
                                 ELSE <<>>]
    IN  IF ~ContextResolved(league, gclass)
        THEN [g EXCEPT !.pc = "done", !.result = <<>>]
        ELSE IF fd.fn = "rankings_df_for_team"
        THEN [g EXCEPT !.pc = "rankings"]
        ELSE [g EXCEPT !.pc = "list"]

\* find_upcoming_for_team after list_mode_iterate returned
AfterWalk(fd, w) ==
    [fd EXCEPT !.pc = "done",
               !.result = Truncate(FilterLoop(w.all_ids, w.rows_map, fd.name,
                                              <<>>))]

\* pd.to_numeric(e.get("rank"), errors="coerce"): NoInt stands for NaN
Platz(e) == IF "rank" \in DOMAIN e THEN e.rank ELSE NoInt

RECURSIVE SortedInsert(_, _)
\* row put after the rows of out that do not sort after it (NaN last)
SortedInsert(out, row) ==
    IF out = <<>> THEN <<row>>
    ELSE IF row.Platz # NoInt /\ (Head(out).Platz = NoInt
                                  \/ row.Platz < Head(out).Platz)
    THEN <<row>> \o out
    ELSE <<Head(out)>> \o SortedInsert(Tail(out), row)

RECURSIVE SortByPlatz(_)
\* df.sort_values("Platz", na_position="last")
SortByPlatz(rows) ==
    IF rows = <<>> THEN <<>>
    ELSE SortedInsert(SortByPlatz(Front(rows)), Last(rows))

\* rankings_df_for_team after get_rankings returned raw; of the columns,
\* Platz and Team are kept (the others are copied the way Team is)
AfterRankings(fd, raw) ==
    [fd EXCEPT !.pc = "done",
               !.result = SortByPlatz([i \in 1..Len(Entries(raw)) |->
                              [Platz |-> Platz(Entries(raw)[i]),
                               Team  |-> Entries(raw)[i].team_name]])]

----------------------------------------------------------------------------
(* SpecFind: find_upcoming_for_team and rankings_df_for_team, request by
   request.  A call runs against one of two upstreams:
     "faulty":  any request may be answered by an error, by a malformed
                body or by an answer without the fields asked for;
     "listing": the team-mode answers and the team metadata are well formed,
                and the league listing spans several rounds of games.      *)

\* display names of MY_TEAMS, and names of other teams
TeamName == <<"U", "R", "E">>
Frutigen == <<"F", "R">>
Other == <<"F">>

\* the entry of the team-mode answer, and one that has an id only
E1 ==
    Dict([game |-> Dict([id |-> Leaf(1),
                         date |-> TextLeaf(<<"d">>),
                         home_team |-> Dict([name |-> TextLeaf(TeamName)]),
                         away_team |-> Dict([name |-> TextLeaf(Other)]),
                         result |-> TextLeaf(<<"-">>)])])
E2 == Dict([id |-> Leaf(5)])

GamesResponses(upstream) ==
    IF upstream = "faulty"
    THEN {Http(200, TRUE, [entries |-> <<E1, E2>>]),
          Http(200, TRUE, [entries |-> <<>>]),
          Http(200, TRUE, EmptyMapping),
          Http(404, FALSE, EmptyMapping),
          Http(503, FALSE, EmptyMapping),
          Http(200, FALSE, EmptyMapping)}
    ELSE {Http(200, TRUE, [entries |-> <<>>]),
          Http(200, TRUE, [entries |-> [i \in 1..(ResultCap + 1) |-> E2]])}

\* team metadata; a field that is JNone is absent
TeamInfo(league, gclass, group, name) ==
    LET field == [k \in {"league", "game_class", "group", "name"} |->
                    CASE k = "league" -> league
                      [] k = "game_class" -> gclass
                      [] k = "group" -> group
                      [] OTHER -> name]
    IN  Dict([k \in {x \in DOMAIN field : field[x] # JNone} |->
                CASE k = "league" -> Dict([id |-> league])
                  [] k = "game_class" -> Dict([id |-> gclass])
                  [] k = "group" -> Dict([name |-> group])
                  [] OTHER -> name])

LowerName == TextLeaf(LowerText(TeamName))

TeamResponses(upstream) ==
    IF upstream = "faulty"
    THEN {Http(200, TRUE, TeamInfo(Leaf(1), Leaf(2), TextLeaf(<<"A">>), LowerName)),
          Http(200, TRUE, TeamInfo(JNone, Leaf(2), JNone, LowerName)),
          Http(200, TRUE, TeamInfo(Leaf(1), Leaf(0), JNone, JNone)),
          Http(200, TRUE, EmptyMapping),
          Http(200, FALSE, EmptyMapping),
          Http(404, FALSE, EmptyMapping),
          Http(503, FALSE, EmptyMapping)}
    ELSE {Http(200, TRUE, TeamInfo(Leaf(1), Leaf(2), JNone, JNone)),
          Http(200, TRUE, TeamInfo(Leaf(1), Leaf(2), TextLeaf(<<"A">>), LowerName))}

RankingsResponses ==
    {Http(200, TRUE, [entries |-> <<[rank |-> 2, team_name |-> TeamName],
                                     [team_name |-> Other],
                                     [rank |-> 1, team_name |-> Other]>>]),
     Http(200, TRUE, [entries |-> <<>>]),
     Http(404, FALSE, EmptyMapping)}

\* The page of round rho of the listing.  Its games are 3*rho-2 .. 3*rho.
\*   "all":   three games of the team, its name spelt in three ways, and a
\*            game of other teams;
\*   "mixed": a game of other teams, a game of the team without a link, a
\*            game of the team with id 0, a game of the team linked from
\*            another cell, a game of teams with similar names;
\*   "dup":   a game of the team, the same game again as a game of other
\*            teams, the last game of the current round again, a game of
\*            other teams and the same game again as a game of the team.
ListingRows(rho, pat) ==
    LET a == 3 * rho - 2
        b == 3 * rho - 1
        c == 3 * rho
        d == Text("d")
    IN  CASE pat = "all" ->
               <<MkRow(a, d, TeamName, Other, 1),
                 MkRow(3 * (MaxListRounds + 1) + rho, d, Other, <<"G">>, 1),
                 MkRow(b, d, Other, LowerText(TeamName), 1),
                 MkRow(c, d, <<"x", "u", "R", "E">>, Other, 1)>>
          [] pat = "mixed" ->
               <<MkRow(a, d, Other, <<"G">>, 1),
                 MkRow(b, d, TeamName, Other, 0),
                 MkRow(0, d, TeamName, Other, 1),
                 MkRow(b, d, Other, TeamName, 4),
                 MkRow(c, d, <<"U", "R">>, <<"R", "E">>, 1)>>
          [] OTHER ->
               <<MkRow(a, d, TeamName, Other, 1),
                 MkRow(a, Text("e"), Other, Other, 1),
                 MkRow(3 * (MaxListRounds + 1), Text("e"), TeamName, Other, 1),
                 MkRow(b, d, Other, <<"G">>, 1),
                 MkRow(b, Text("e"), TeamName, <<"G">>, 1)>>

ListingPage(rho, pat, more) ==
    Page(ListingRows(rho, pat), IF more /\ rho > 1 THEN rho - 1 ELSE NoInt)

\* the round of the page the walk w asks for
RoundAsked(w) == IF w.pc = "initial" THEN MaxListRounds + 1 ELSE w.prev_round

ListResponses(upstream, w) ==
    IF upstream = "faulty"
    THEN {NetFail, Http(404, FALSE, EmptyMapping),
          Http(200, TRUE, ListingPage(1, "all", FALSE))}
    ELSE {Http(200, TRUE, ListingPage(RoundAsked(w), pat, more)) :
            pat \in {"all", "mixed", "dup"}, more \in BOOLEAN}

InitFind ==
    /\ error_log = <<>> /\ appended = <<>>
    /\ json_error_is_request_exception \in BOOLEAN
    /\ calls = 0 /\ fetch = IdleFrame /\ obs = ObsInit
    /\ walk = WalkIdle /\ find = FindIdle /\ sg = SgIdle

CallFindUpcoming ==
    /\ find.pc = "idle"
    /\ \E up \in {"faulty", "listing"}, tn \in {TeamName, Frutigen} :
          find' = FindStart("find_upcoming_for_team", up, tn)
    /\ fetch' = NewFrame("api_get")
    /\ obs' = [ObsInit EXCEPT !.reqs = <<Req("games", 1)>>]
    /\ calls' = calls + 1
    /\ UNCHANGED <<error_log, appended, json_error_is_request_exception,
                   walk, sg>>

CallRankings ==
    /\ find.pc = "idle"
    /\ find' = FindStart("rankings_df_for_team", "faulty", TeamName)
    /\ fetch' = NewFrame("api_get")
    /\ obs' = [ObsInit EXCEPT !.reqs = <<Req("teams", 0)>>]
    /\ calls' = calls + 1
    /\ UNCHANGED <<error_log, appended, json_error_is_request_exception,
                   walk, sg>>

\* the request the frame fd starts with, once the call before it returned
RequestOf(fd) ==
    CASE fd.pc = "team_mode" -> <<Req("games", fd.variant)>>
      [] fd.pc = "get_team" -> <<Req("teams", 0)>>
      [] fd.pc = "rankings" -> <<Req("rankings", 0)>>
      [] fd.pc = "list" -> <<Req("list", NoInt)>>
      [] OTHER -> <<>>

\* what a call of api_get came to, as its caller sees it
Outcome(f) ==
    IF f.state = "raised" THEN "raised"
    ELSE IF Entries(f.value) # <<>> THEN "entries" ELSE "empty"

\* the code that runs once the api_get call of the frame fd returned value
AfterApiGet(fd, value) ==
    CASE fd.pc = "team_mode" -> AfterTeamMode(fd, value)
      [] fd.pc = "get_team" -> AfterGetTeam(fd, value)
      [] OTHER -> AfterRankings(fd, value)

\* One request of the api_get call in progress is answered by resp.  An
\* exception of api_get is caught by no caller.
FindApiAnswered(resp) ==
    \E r \in {ApiGetStep(fetch, resp, json_error_is_request_exception)} :
    \E fd \in {IF r.f.state = "running" THEN find
               ELSE IF r.f.state = "raised" THEN [find EXCEPT !.pc = "raised"]
               ELSE AfterApiGet(find, r.f.value)} :
       /\ find' = fd
       /\ fetch' = IF r.f.state = "running" THEN r.f
                   ELSE IF fd.pc \in {"team_mode", "get_team", "rankings"}
                   THEN NewFrame("api_get")
                   ELSE IF fd.pc = "list" THEN NewFrame("http_get_raw")
                   ELSE IdleFrame
       /\ walk' = IF r.f.state # "running" /\ fd.pc = "list"
                  THEN WalkStart(FindMaxRounds) ELSE walk
       /\ error_log' = LogAll(error_log, r.log)
       /\ appended' = appended \o r.log
       /\ obs' = [obs EXCEPT
                    !.resps = IF find.pc = "get_team" THEN Append(@, resp) ELSE @,
                    !.logged = @ + Len(r.log),
                    !.rets = IF r.f.state = "running" THEN @
                             ELSE Append(@, Outcome(r.f)),
                    !.reqs = IF r.f.state = "running" THEN @
                             ELSE @ \o RequestOf(fd)]

TeamModeRequest ==
    /\ find.pc = "team_mode"
    /\ \E resp \in GamesResponses(find.upstream) :
          FindApiAnswered(resp)
    /\ UNCHANGED <<json_error_is_request_exception, calls, sg>>

GetTeamRequest ==
    /\ find.pc = "get_team"
    /\ \E resp \in TeamResponses(find.upstream) :
          FindApiAnswered(resp)
    /\ UNCHANGED <<json_error_is_request_exception, calls, sg>>

RankingsRequest ==
    /\ find.pc = "rankings"
    /\ \E resp \in RankingsResponses : FindApiAnswered(resp)
    /\ UNCHANGED <<json_error_is_request_exception, calls, sg>>

FindListRequest ==
    /\ find.pc = "list"
    /\ \E resp \in ListResponses(find.upstream, walk) :
       \E s \in {WalkStep(walk, fetch, resp)} :
       \E pg \in {HttpGetRawStep(fetch, resp).f} :
          /\ walk' = s.walk
          /\ fetch' = s.fetch
          /\ find' = IF s.walk.pc = "done" THEN AfterWalk(find, s.walk)
                     ELSE find
          /\ error_log' = LogAll(error_log, s.log)
          /\ appended' = appended \o s.log
          /\ obs' = [obs EXCEPT
                       !.logged = @ + Len(s.log),
                       !.reqs = @ \o s.reqs,
                       !.listing = IF pg.state = "returned"
                                   THEN @ \o Flatten(RegionsOf(pg.value))
                                   ELSE @]
    /\ UNCHANGED <<json_error_is_request_exception, calls, sg>>

NextFind ==
    \/ CallFindUpcoming
    \/ CallRankings
    \/ TeamModeRequest
    \/ GetTeamRequest
    \/ RankingsRequest
    \/ FindListRequest

SpecFind == InitFind /\ [][NextFind]_vars

----------------------------------------------------------------------------
(* The fallback chain, read off the history of requests *)

IsFindUpcoming == find.pc # "idle" /\ find.fn = "find_upcoming_for_team"
IsRankingsDf == find.pc # "idle" /\ find.fn = "rankings_df_for_team"

\* position i of the history holds a request of endpoint api
Asked(i, api) == i \in 1..Len(obs.reqs) /\ obs.reqs[i].api = api

ListAsked == \E i \in 1..Len(obs.reqs) : Asked(i, "list")

\* the answer that ended the team metadata call, {} unless it is a JSON body
TeamMeta ==
    LET r == obs.resps[Len(obs.resps)] IN
    IF ~r.net /\ r.status = 200 /\ r.json THEN r.data ELSE EmptyMapping

\* the metadata m holds a non-zero id under key k
YieldsId(m, k) ==
    /\ m # EmptyMapping
    /\ k \in DOMAIN m.m
    /\ m.m[k].t = "dict"
    /\ "id" \in DOMAIN m.m[k].m
    /\ m.m[k].m["id"] \notin {JNone, Leaf(0)}

\* derive_context_from_team has returned
ContextReturned ==
    \E i \in 1..Len(obs.rets) : Asked(i, "teams") /\ obs.rets[i] # "raised"

MetaResolved == YieldsId(TeamMeta, "league") /\ YieldsId(TeamMeta, "game_class")

\* C8: the team-mode variants are queried in their fixed order, each only
\* after every variant before it returned zero entries, and none after a
\* variant that returned an entry; a list-mode request is issued only after
\* all five variants returned zero entries and the team metadata yielded a
\* league id and a game-class id; when the metadata leaves league or class
\* unresolved, no list-mode request (find_upcoming_for_team) and no rankings
\* request (rankings_df_for_team) is issued and the call returns an empty
\* result.
C8_FallbackOrder ==
    /\ IsFindUpcoming =>
          /\ \A i \in 1..Len(obs.reqs) :
                Asked(i, "games") =>
                   /\ i <= Variants
                   /\ obs.reqs[i].arg = i
                   /\ \A j \in 1..(i - 1) :
                         Asked(j, "games") /\ obs.rets[j] = "empty"
          /\ \A i \in 1..Len(obs.rets) :
                (Asked(i, "games") /\ obs.rets[i] = "entries") =>
                   /\ Len(obs.reqs) = i
                   /\ find.pc = "done"
                   /\ find.result # <<>>
          /\ \A i \in 1..Len(obs.reqs) :
                Asked(i, "list") =>
                   /\ i > Variants + 1
                   /\ \A v \in 1..Variants :
                         obs.reqs[v] = Req("games", v) /\ obs.rets[v] = "empty"
                   /\ Asked(Variants + 1, "teams")
                   /\ MetaResolved
          /\ (ContextReturned /\ ~MetaResolved) =>
                /\ ~ListAsked
                /\ find.pc = "done"
                /\ find.result = <<>>
    /\ IsRankingsDf =>
          /\ Asked(1, "teams")
          /\ \A i \in 1..Len(obs.reqs) :
                Asked(i, "rankings") => i = 2 /\ MetaResolved
          /\ (ContextReturned /\ ~MetaResolved) =>
                /\ Len(obs.reqs) = 1
                /\ find.pc = "done"
                /\ find.result = <<>>

\* all five variants came back empty, two of them after a retry, the
\* metadata resolved league and class, and the listing was asked for
C8_Witness ==
    /\ IsFindUpcoming
    /\ find.upstream = "faulty"
    /\ Len(obs.rets) > Variants
    /\ \A v \in 1..Variants : obs.rets[v] = "empty"
    /\ obs.logged >= 2
    /\ Asked(Variants + 1, "teams")
    /\ Asked(Variants + 2, "list")
    /\ find.pc = "done"
    /\ find.result # <<>>

----------------------------------------------------------------------------
(* The rows of the listing, read off the pages the upstream returned *)

\* text contains name, letter case ignored
ContainsIgnoringCase(text, name) ==
    \E i \in 0..(Len(text) - Len(name)) :
        \A k \in 1..Len(name) : LowerChar(text[i + k]) = LowerChar(name[k])

\* the home or the away name of the listing row contains name
RowMatches(row, name) ==
    \/ ContainsIgnoringCase(row.cells[3].text[1], name)
    \/ ContainsIgnoringCase(row.cells[7].text[1], name)

RowId(row) == parse_list_row_min(row).gid

RECURSIVE MatchingRows(_, _, _)
\* The rows of the listing that match name, as rows of the result, in
\* listing order.  A row counts when it carries a non-zero game id that no
\* row before it carries.
MatchingRows(rows, seen, name) ==
    IF rows = <<>> THEN <<>>
    ELSE LET gid == RowId(Head(rows)) IN
         IF ~Truthy(gid) \/ gid \in seen
         THEN MatchingRows(Tail(rows), seen, name)
         ELSE (IF RowMatches(Head(rows), name)
               THEN <<ListRow(gid, parse_list_row_min(Head(rows)).info)>>
               ELSE <<>>)
              \o MatchingRows(Tail(rows), seen \cup {gid}, name)

\* every row of the listing carries a non-zero game id of its own
DistinctListedGames(rows) ==
    /\ \A i \in 1..Len(rows) : Truthy(RowId(rows[i]))
    /\ \A i, j \in 1..Len(rows) : RowId(rows[i]) = RowId(rows[j]) => i = j

RECURSIVE WithoutRepeats(_)
\* s without the elements that repeat an earlier element
WithoutRepeats(s) ==
    IF s = <<>> THEN <<>>
    ELSE LET f == WithoutRepeats(Front(s)) IN
         IF \E i \in 1..Len(f) : f[i] = Last(s) THEN f ELSE Append(f, Last(s))

\* find_upcoming_for_team returned after all five team-mode variants returned
\* zero entries and the listing was walked
ListModeResult ==
    /\ IsFindUpcoming
    /\ find.pc = "done"
    /\ ListAsked
    /\ \A v \in 1..Variants : obs.rets[v] = "empty"

\* C4 as stated: the result is exactly the matching rows of the listing, in
\* listing order, however many they are (checked where every row of the
\* listing is a game of its own with a non-zero id).
C4_ExactlyTheMatchingRows ==
    (ListModeResult /\ DistinctListedGames(obs.listing)) =>
        find.result = MatchingRows(obs.listing, {}, find.team_name)

\* C4, amended: the result holds at most 8 rows; every row of it is a
\* matching row of the listing and the rows come in listing order; when fewer
\* than 8 rows are returned every matching row is among them; and when every
\* row of the listing is a game of its own, the result is exactly the first
\* min(N, 8) of the N matching rows.
C4_FirstEightMatchingRows ==
    ListModeResult =>
        LET M == MatchingRows(obs.listing, {}, find.team_name)
            D == WithoutRepeats(find.result)
        IN  /\ Len(find.result) <= 8
            /\ Len(D) <= Len(M)
            /\ D = FirstN(M, Len(D))
            /\ Len(find.result) < 8 => D = M
            /\ DistinctListedGames(obs.listing) =>
                  find.result = FirstN(M, 8)

\* nine rows of the listing match, among rows that do not, and the first
\* eight of them are returned
C4_Witness ==
    /\ ListModeResult
    /\ DistinctListedGames(obs.listing)
    /\ Len(MatchingRows(obs.listing, {}, find.team_name)) = 9
    /\ Len(obs.listing) > 9
    /\ Len(find.result) = 8

====
